---- MODULE Spec2Model ----
(***************************************************************************)
(* Verification model of the chemistry chatbot (Namenomeaning/             *)
(* chemistry_chatbot).  The parts of the program that are modelled:        *)
(*                                                                         *)
(*   1. the catalog lookup tool search_compound  (agent/tools/search.py),  *)
(*   2. the node pipeline rephrase_query -> check_relevance ->             *)
(*      extract_and_validate -> retrieve_from_rag -> generate_response     *)
(*      (agent/nodes/*.py, routed by agent/nodes/conditional.py),          *)
(*   3. the request entry points query_chemistry, query_with_upload        *)
(*      (main.py) and invoke_agent (agent.py), their timeout and their     *)
(*      worker pool,                                                       *)
(*   4. the readers of the recent history (rephrase.py, generate.py),      *)
(*   5. the oracle retry loop generate_structured (gemini_service.py),     *)
(*   6. the hybrid lookup hybrid_search (qdrant_service.py),               *)
(*   7. the lazily built agent (agent/graph.py, agent.py),                 *)
(*   8. parse_structured_response (main.py).                               *)
(*                                                                         *)
(* Text is modelled as a sequence of one-character strings so that         *)
(* strip(), upper(), lower(), split() and the similarity ratio are         *)
(* computed, not assumed.                                                  *)
(***************************************************************************)
EXTENDS Integers, Sequences, FiniteSets, TLC

VARIABLES
    \* ---- search_compound -------------------------------------------------
    s_compounds,    \* _COMPOUNDS: the loaded catalog (a sequence of records)
    s_query,        \* the key of the last search_compound call
    s_result,       \* what that call returned (or that it raised)
    s_pc,           \* "idle" before the call, "returned" after it
    \* ---- node pipeline ---------------------------------------------------
    p_state,        \* thread id -> the AgentState checkpointed for the thread
    p_thread,       \* the thread of the run in progress (NoThread when idle)
    p_pc,           \* the node the run is about to execute, or how it ended
    p_calls,        \* the nodes called so far in this run, in order
    p_oracle,       \* the oracle calls of this run: <<[node, out]>>
    p_runs,         \* number of runs started so far
    p_accepted,     \* threads that had a turn accepted by the relevance gate
    \* ---- request entry points --------------------------------------------
    a_reqs,         \* the requests received so far, in order of arrival
    a_memory,       \* checkpointer storage: <<app, thread id>> -> messages
    a_ids,          \* number of thread ids generated so far
    a_invocations,  \* number of agent.invoke calls started so far
    \* ---- reading the recent history of a thread --------------------------
    h_messages,     \* the messages stored for the thread
    h_turns,        \* the turns appended so far: [id, complete]
    h_pc,           \* "idle", or "asked" while a run has stored its question
    h_read,         \* what the last reader got, and the turns stored then
    \* ---- generate_structured: the oracle retry loop ----------------------
    r_max,          \* max_retries of the call
    r_outcomes,     \* what each attempt so far met
    r_delays,       \* the delays slept so far, in seconds
    r_status,       \* "calling", "returned" or "raised"
    r_result,       \* the value returned or the error raised
    \* ---- hybrid_search: two executions over the same rankings ------------
    f_dense,        \* the dense ranking: candidates in rank order
    f_sparse,       \* the sparse ranking: candidates in rank order
    f_raw,          \* raw similarity values of the two executions
    f_limit,        \* limit of the call
    f_threshold,    \* threshold of the call (a fraction)
    f_results,      \* the results of the two executions
    f_pc,           \* "idle" or "done"
    \* ---- get_agent / build_agent / get_memory: the lazy singletons -------
    g_impl,         \* the module whose get_agent is called
    g_agent,        \* the global _agent (0 is None)
    g_memory,       \* the global _memory / _checkpointer (0 is None)
    g_agents,       \* the agents created so far: the checkpointer of each
    g_memories,     \* number of checkpointers created so far
    g_call,         \* caller -> [pc, mem, ret] of its get_agent call
    \* ---- parse_structured_response ---------------------------------------
    x_content,      \* the content string handed to the function
    x_result        \* what the call returned (or that it raised)

svars == <<s_compounds, s_query, s_result, s_pc>>

pvars == <<p_state, p_thread, p_pc, p_calls, p_oracle, p_runs, p_accepted>>

avars == <<a_reqs, a_memory, a_ids, a_invocations>>

hvars == <<h_messages, h_turns, h_pc, h_read>>

rvars == <<r_max, r_outcomes, r_delays, r_status, r_result>>

fvars == <<f_dense, f_sparse, f_raw, f_limit, f_threshold, f_results, f_pc>>

gvars == <<g_impl, g_agent, g_memory, g_agents, g_memories, g_call>>

xvars == <<x_content, x_result>>

vars == <<svars, pvars, avars, hvars, rvars, fvars, gvars, xvars>>

(***************************************************************************)
(* Bounds of the model                                                     *)
(***************************************************************************)
MaxKeyLen == 3       \* longest key handed to search_compound
MaxCatalog == 2      \* most records in a catalog
MaxRuns == 2         \* pipeline runs started in one behaviour
MaxDocs == 2         \* most records a hybrid search returns
MaxRequests == 2     \* requests received in one behaviour
MaxTurns == 4        \* runs on the thread whose history is read
MaxCallers == 2      \* threads calling get_agent at the same time
MaxPoolRequests == 5 \* requests sent to one worker pool
MaxRanked == 2       \* most candidates one ranking returns
MaxLimit == 2        \* largest limit of a hybrid search

(***************************************************************************)
(* Characters and Python's str operations                                  *)
(***************************************************************************)
\* The alphabet, in code-point order (Python compares strings by code point).
Chars == <<" ", "-", "2", "A", "a", "b">>

CharSet == {Chars[i] : i \in 1..Len(Chars)}

Ord(c) == CHOOSE i \in 1..Len(Chars) : Chars[i] = c

upper_c(c) == IF c = "a" THEN "A" ELSE IF c = "b" THEN "B" ELSE c

lower_c(c) == IF c = "A" THEN "a" ELSE IF c = "B" THEN "b" ELSE c

\* str.upper / str.lower
upper(s) == [i \in 1..Len(s) |-> upper_c(s[i])]

lower(s) == [i \in 1..Len(s) |-> lower_c(s[i])]

isspace(c) == c = " "

isdigit(c) == c = "2"

isupper(c) == c \in {"A", "B"}

RECURSIVE lstrip(_)
lstrip(s) ==
    IF s = <<>> THEN s
    ELSE IF isspace(Head(s)) THEN lstrip(Tail(s)) ELSE s

RECURSIVE rstrip(_)
rstrip(s) ==
    IF s = <<>> THEN s
    ELSE IF isspace(s[Len(s)]) THEN rstrip(SubSeq(s, 1, Len(s) - 1)) ELSE s

\* str.strip
strip(s) == rstrip(lstrip(s))

\* str.split(): the maximal runs of non-whitespace characters, in order
RECURSIVE split_from(_, _, _)
split_from(s, cur, acc) ==
    IF s = <<>> THEN (IF cur = <<>> THEN acc ELSE Append(acc, cur))
    ELSE IF isspace(Head(s))
         THEN split_from(Tail(s), <<>>, IF cur = <<>> THEN acc ELSE Append(acc, cur))
         ELSE split_from(Tail(s), Append(cur, Head(s)), acc)

split(s) == split_from(s, <<>>, <<>>)

\* s < t in Python's string order
RECURSIVE str_less(_, _)
str_less(s, t) ==
    IF t = <<>> THEN FALSE
    ELSE IF s = <<>> THEN TRUE
    ELSE IF Head(s) = Head(t) THEN str_less(Tail(s), Tail(t))
    ELSE Ord(Head(s)) < Ord(Head(t))

\* sorted(tokens)
RECURSIVE insert_sorted(_, _)
insert_sorted(tok, ts) ==
    IF ts = <<>> THEN <<tok>>
    ELSE IF str_less(tok, Head(ts)) THEN <<tok>> \o ts
    ELSE <<Head(ts)>> \o insert_sorted(tok, Tail(ts))

RECURSIVE sorted(_)
sorted(ts) ==
    IF ts = <<>> THEN <<>> ELSE insert_sorted(Head(ts), sorted(Tail(ts)))

\* " ".join(tokens)
RECURSIVE join(_)
join(ts) ==
    IF ts = <<>> THEN <<>>
    ELSE IF Len(ts) = 1 THEN Head(ts)
    ELSE Head(ts) \o <<" ">> \o join(Tail(ts))

(***************************************************************************)
(* rapidfuzz.fuzz.token_sort_ratio                                         *)
(***************************************************************************)
Max2(a, b) == IF a >= b THEN a ELSE b

\* length of the longest common subsequence
RECURSIVE lcs(_, _)
lcs(s, t) ==
    IF s = <<>> \/ t = <<>> THEN 0
    ELSE IF Head(s) = Head(t) THEN 1 + lcs(Tail(s), Tail(t))
    ELSE Max2(lcs(Tail(s), t), lcs(s, Tail(t)))

\* fuzz.ratio(s, t) / 100.0 as the exact fraction <<numerator, denominator>>:
\* the normalized Indel similarity 1 - (len(s)+len(t)-2*lcs)/(len(s)+len(t)),
\* which is 1 when both strings are empty.
ratio(s, t) ==
    IF Len(s) + Len(t) = 0 THEN <<1, 1>>
    ELSE <<2 * lcs(s, t), Len(s) + Len(t)>>

\* tokens sorted and re-joined on both sides, then ratio
token_sort_ratio(s, t) == ratio(join(sorted(split(s))), join(sorted(split(t))))

\* comparison and maximum of fractions
frac_geq(a, b) == a[1] * b[2] >= b[1] * a[2]

frac_max(a, b) == IF frac_geq(a, b) THEN a ELSE b

\* round(x, 2) in hundredths, ties to even
round2(x) ==
    LET q == (100 * x[1]) \div x[2]
        r == (100 * x[1]) % x[2]
    IN  IF 2 * r < x[2] THEN q
        ELSE IF 2 * r > x[2] THEN q + 1
        ELSE IF q % 2 = 0 THEN q ELSE q + 1

(***************************************************************************)
(* The catalog                                                             *)
(***************************************************************************)
\* Text literals used by the catalog records below.
T_A2 == <<"A", "2">>
T_A == <<"A">>
T_Ab2 == <<"A", "b", "2">>
T_ab == <<"a", "b">>
T_b_a == <<"b", " ", "a">>
T_aab == <<"a", "a", "b">>
T_a2 == <<"a", "2">>

\* Records of chemistry_data.json.  A key the record lacks reads as "" / []
\* (compound.get(key, "") / compound.get("common_names", [])).
Compounds == {
    [doc_id |-> "d1", formula |-> T_A2, molecular_formula |-> T_A2,
     iupac_name |-> T_ab, common_names |-> <<T_b_a>>],
    [doc_id |-> "d2", formula |-> T_A, molecular_formula |-> <<>>,
     iupac_name |-> T_aab, common_names |-> <<>>],
    [doc_id |-> "d3", formula |-> T_Ab2, molecular_formula |-> <<>>,
     iupac_name |-> T_a2, common_names |-> <<T_ab>>] }

\* Every content of _COMPOUNDS: the empty list (data file missing or empty)
\* and every list of up to MaxCatalog records.
Catalogs == UNION {[1..n -> Compounds] : n \in 0..MaxCatalog}

\* Every key: all strings of up to MaxKeyLen characters.
Keys == UNION {[1..n -> CharSet] : n \in 0..MaxKeyLen}

(***************************************************************************)
(* search_compound  (agent/tools/search.py)                                *)
(***************************************************************************)
has_digits(s) == \E i \in 1..Len(s) : isdigit(s[i])

has_hyphen(s) == \E i \in 1..Len(s) : s[i] = "-"

\* len(query_stripped) <= 2 and query_stripped[0].isupper(); the caller has
\* already excluded the empty string, on which [0] raises IndexError.
is_short_symbol(query_stripped) ==
    Len(query_stripped) <= 2 /\ isupper(query_stripped[1])

is_formula_query(query_stripped) ==
    (has_digits(query_stripped) /\ ~has_hyphen(query_stripped))
        \/ is_short_symbol(query_stripped)

\* Mutant of formula_match: `query_upper in formula` (substring test) in place
\* of equality.
RECURSIVE is_substring(_, _)
is_substring(s, t) ==
    IF Len(s) > Len(t) THEN FALSE
    ELSE IF SubSeq(t, 1, Len(s)) = s THEN TRUE
    ELSE is_substring(s, Tail(t))

formula_match_substring(compound, query_upper) ==
    \/ is_substring(query_upper, upper(compound.formula))
    \/ is_substring(query_upper, upper(compound.molecular_formula))

\* query_upper == formula or query_upper == molecular_formula
formula_match(compound, query_upper) ==
    \/ query_upper = upper(compound.formula)
    \/ query_upper = upper(compound.molecular_formula)

\* max((token_sort_ratio(q, cn) / 100.0 for cn in common_names), default=0)
RECURSIVE common_score(_, _)
common_score(common_names, query_lower) ==
    IF common_names = <<>> THEN <<0, 1>>
    ELSE frac_max(token_sort_ratio(query_lower, lower(Head(common_names))),
                  common_score(Tail(common_names), query_lower))

\* max_score = max(name_score, common_score)
max_score(compound, query_lower) ==
    frac_max(token_sort_ratio(query_lower, lower(compound.iupac_name)),
             common_score(compound.common_names, query_lower))

\* if max_score >= 0.7
passes_threshold(score) == frac_geq(score, <<7, 10>>)

\* The loop over the catalog: the list `results`, in catalog order, each entry
\* the record with its score in hundredths.
RECURSIVE collect_results(_, _, _)
collect_results(compounds, query, acc) ==
    IF compounds = <<>> THEN acc
    ELSE LET compound == Head(compounds)
             query_lower == strip(lower(query))
             query_upper == strip(upper(query))
             rest == Tail(compounds)
         IN  IF is_formula_query(strip(query))
             THEN IF formula_match(compound, query_upper)
                  THEN collect_results(rest, query,
                           Append(acc, [compound |-> compound, score |-> 100]))
                  ELSE collect_results(rest, query, acc)
             ELSE LET ms == max_score(compound, query_lower)
                  IN  IF passes_threshold(ms)
                      THEN collect_results(rest, query,
                               Append(acc, [compound |-> compound, score |-> round2(ms)]))
                      ELSE collect_results(rest, query, acc)

\* results.sort(key=score, reverse=True): stable, descending
RECURSIVE insert_by_score(_, _)
insert_by_score(e, rs) ==
    IF rs = <<>> THEN <<e>>
    ELSE IF Head(rs).score >= e.score
         THEN <<Head(rs)>> \o insert_by_score(e, Tail(rs))
         ELSE <<e>> \o rs

\* Mutant of sort_results: the list is left in catalog order.
sort_results_unsorted(rs, acc) == rs

RECURSIVE sort_results(_, _)
sort_results(rs, acc) ==
    IF rs = <<>> THEN acc
    ELSE sort_results(Tail(rs), insert_by_score(Head(rs), acc))

\* What one call returns: the load-error message (empty catalog), an
\* IndexError (query_stripped[0] on an empty string), the no-match message,
\* or the best record (JSON of best_match without its score).
search_compound(compounds, query) ==
    IF compounds = <<>> THEN [kind |-> "load_error"]
    ELSE IF strip(query) = <<>> THEN [kind |-> "raised", exc |-> "IndexError"]
    ELSE LET results == collect_results(compounds, query, <<>>)
         IN  IF results = <<>> THEN [kind |-> "no_match", query |-> query]
             ELSE [kind |-> "record",
                   compound |-> sort_results(results, <<>>)[1].compound]

NoResult == [kind |-> "none"]

\* The process state once chemistry_data.json has been read by _load_data.
SInit ==
    /\ s_compounds \in Catalogs
    /\ s_query = <<>>
    /\ s_result = NoResult
    /\ s_pc = "idle"

\* The agent calls the tool with a key.
SearchCompound ==
    /\ s_pc = "idle"
    /\ \E query \in Keys :
        /\ s_query' = query
        /\ s_result' = search_compound(s_compounds, query)
    /\ s_pc' = "returned"
    /\ UNCHANGED s_compounds
    /\ UNCHANGED <<pvars, avars, hvars, rvars, fvars, gvars, xvars>>

SNext == SearchCompound


(***************************************************************************)
(* The node pipeline: AgentState  (agent/state.py)                         *)
(***************************************************************************)
Threads == {"t1", "t2"}

NoThread == "none"

\* Python None where a text is expected.
NoneVal == "<None>"

\* A key of the state dict is either absent (Unset) or holds a value.
Unset == <<>>

Some(v) == <<v>>

\* state.get(key, default)
Get(state, key, default) == IF state[key] = Unset THEN default ELSE state[key][1]

\* bool(text): None and "" are falsy
Truthy(text) == text \notin {NoneVal, ""}

\* The state of a thread that has never been used: every key absent, the
\* messages channel empty.
EmptyState ==
    [messages |-> <<>>,
     input_text |-> Unset, input_image |-> Unset,
     rephrased_query |-> Unset, is_chemistry_related |-> Unset,
     error_message |-> Unset,
     search_query |-> Unset, is_valid |-> Unset, needs_rag |-> Unset,
     rag_context |-> Unset,
     final_response |-> Unset]

HumanMessage(content) == [role |-> "human", content |-> content]

AIMessage(content) == [role |-> "ai", content |-> content]

\* A node's return value merged into the state: `messages` goes through the
\* add_messages reducer (appended), every other key is overwritten.
Merge(state, update) ==
    [k \in DOMAIN state |->
        IF k \notin DOMAIN update THEN state[k]
        ELSE IF k = "messages" THEN state[k] \o update[k]
        ELSE Some(update[k])]

\* What a node did: it raised, or it returned an update; `oracle` tells
\* whether it called gemini_service.generate_structured.
Raised(exc, oracle) == [raised |-> TRUE, exc |-> exc, oracle |-> oracle]

Returned(update, oracle) == [raised |-> FALSE, update |-> update, oracle |-> oracle]

(***************************************************************************)
(* The oracle: gemini_service.generate_structured as seen by a node.       *)
(* It raises (a non-overload error, or overload on every attempt), or it   *)
(* returns response.parsed: an instance of the response schema, or None.   *)
(***************************************************************************)
OracleRaised == [kind |-> "raised"]

OracleNone == [kind |-> "none"]

OracleParsed(r) == [kind |-> "parsed", response |-> r]

OracleOutcomes(schema) == {OracleRaised, OracleNone} \cup {OracleParsed(r) : r \in schema}

\* The response schemas  (agent/schemas.py)
RephraseResponse == [rephrased_query : {"", "standalone q"}]

RelevanceResponse ==
    [is_chemistry_related : BOOLEAN, error_message : {NoneVal, "not chemistry"}]

ExtractionResponse ==
    [search_query : {"", "Ethanol"}, is_valid : BOOLEAN,
     error_message : {NoneVal, "did you mean"}]

FinalResponse ==
    [text_response : {"answer"},
     selected_doc_id : {NoneVal, "", "d1", "d2", "d9"},
     should_return_image : BOOLEAN, should_return_audio : BOOLEAN]

(***************************************************************************)
(* rephrase_query  (agent/nodes/rephrase.py)                               *)
(***************************************************************************)
\* "![s](data:b)" stands for a text that is one markdown image with base64
\* data; "[{text: q }]" for the JSON list '[{"text": " q "}]'.
InputTexts == {NoneVal, "", " ", "q", " q ", "![s](data:b)", "[{text: q }]"}

InputImages == {NoneVal, "img"}

PLACEHOLDER == "(hinh anh)"

\* The cleaning of input_text on the texts of InputTexts: a text starting
\* with "[{" that parses as a JSON list of dicts becomes the first element's
\* "text" without markdown images, stripped; in any other text a markdown
\* image with data: URI becomes "[IMAGE]" and the result is stripped.
clean_text(raw) ==
    CASE raw = " q " -> "q"
      [] raw = " " -> ""
      [] raw = "![s](data:b)" -> "[IMAGE]"
      [] raw = "[{text: q }]" -> "q"
      [] OTHER -> raw

\* Mutant of rephrase_query: on the first turn the cleaned text is used as it
\* is, also when it is empty.
rephrase_query_no_placeholder(state, out) ==
    LET raw == Get(state, "input_text", NoneVal)
        current_query == clean_text(IF Truthy(raw) THEN raw ELSE "")
    IN  IF state.messages = <<>>
        THEN Returned([rephrased_query |-> current_query,
                       messages |-> <<HumanMessage(current_query)>>], FALSE)
        ELSE IF out.kind = "raised" THEN Raised("OracleError", TRUE)
        ELSE IF out.kind = "none" THEN Raised("AttributeError", TRUE)
        ELSE Returned([rephrased_query |-> out.response.rephrased_query,
                       messages |-> <<HumanMessage(current_query)>>], TRUE)

rephrase_query(state, out) ==
    LET raw == Get(state, "input_text", NoneVal)
        current_query_raw == IF Truthy(raw) THEN raw ELSE ""
        current_query == clean_text(current_query_raw)
        messages == state.messages
    IN  IF messages = <<>>
        THEN \* first turn: no oracle call
             LET query_for_message ==
                     IF current_query # "" THEN current_query ELSE PLACEHOLDER
             IN  Returned([rephrased_query |-> query_for_message,
                           messages |-> <<HumanMessage(query_for_message)>>], FALSE)
        ELSE IF out.kind = "raised" THEN Raised("OracleError", TRUE)
        ELSE IF out.kind = "none" THEN Raised("AttributeError", TRUE)
        ELSE Returned([rephrased_query |-> out.response.rephrased_query,
                       messages |-> <<HumanMessage(current_query)>>], TRUE)

(***************************************************************************)
(* check_relevance  (agent/nodes/summarize_context.py)                     *)
(***************************************************************************)
check_relevance(state, out) ==
    IF out.kind = "raised" THEN Raised("OracleError", TRUE)
    ELSE IF out.kind = "none" THEN Raised("AttributeError", TRUE)
    ELSE LET response == out.response
         IN  Returned([is_chemistry_related |-> response.is_chemistry_related,
                       error_message |->
                           IF ~response.is_chemistry_related
                           THEN response.error_message ELSE NoneVal], TRUE)

(***************************************************************************)
(* extract_and_validate  (agent/nodes/extract_validate.py)                 *)
(***************************************************************************)
\* The node reads response.needs_rag (in its log line and in its return
\* value); reading an attribute the response object does not have raises
\* AttributeError.
extract_and_validate(state, out) ==
    IF out.kind = "raised" THEN Raised("OracleError", TRUE)
    ELSE IF out.kind = "none" THEN Raised("AttributeError", TRUE)
    ELSE LET response == out.response
         IN  IF "needs_rag" \notin DOMAIN response
             THEN Raised("AttributeError", TRUE)
             ELSE Returned([search_query |-> response.search_query,
                            is_valid |-> response.is_valid,
                            error_message |->
                                IF ~response.is_valid
                                THEN response.error_message ELSE NoneVal,
                            needs_rag |-> response.needs_rag], TRUE)

(***************************************************************************)
(* Conditional edges  (agent/nodes/conditional.py)                         *)
(***************************************************************************)
\* Mutant of check_relevance_route: the verdict is ignored.
check_relevance_route_always(state) == "extract"

check_relevance_route(state) ==
    IF Get(state, "is_chemistry_related", FALSE) THEN "extract" ELSE "end"

\* Mutant of check_validity_route: the route is taken on is_valid.
check_validity_route_on_validity(state) ==
    IF Get(state, "is_valid", TRUE) THEN "retrieve" ELSE "generate"

\* Mutant of check_validity_route: the lookup is always made.
check_validity_route_always_retrieve(state) == "retrieve"

check_validity_route(state) ==
    IF Get(state, "needs_rag", TRUE) THEN "retrieve" ELSE "generate"

(***************************************************************************)
(* retrieve_from_rag  (agent/nodes/retrieve.py)                            *)
(***************************************************************************)
\* Payloads of the catalog collection, as hybrid_search returns them.  "d1"
\* occurs twice so that the first-match rule of generate_response matters.
Docs == {
    [doc_id |-> "d1", image_path |-> "d1.png", audio_path |-> "d1.wav"],
    [doc_id |-> "d2", image_path |-> "", audio_path |-> NoneVal],
    [doc_id |-> "d1", image_path |-> NoneVal, audio_path |-> "d1b.wav"] }

\* What qdrant_service.hybrid_search(query) can give: it raises, or returns a
\* list of payloads.
SearchRaised == [kind |-> "raised"]

SearchOutcomes ==
    {SearchRaised} \cup
    {[kind |-> "results", results |-> r] :
        r \in UNION {[1..n -> Docs] : n \in 0..MaxDocs}}

retrieve_from_rag(state, found) ==
    IF found.kind = "raised" THEN Raised("QdrantError", FALSE)
    ELSE Returned([rag_context |-> found.results], FALSE)

(***************************************************************************)
(* generate_response  (agent/nodes/generate.py)                            *)
(***************************************************************************)
FALLBACK_RAG == "Xin loi, da co loi khi xu ly phan hoi tu he thong."

FALLBACK_DIRECT == "Xin loi, da co loi khi xu ly cau hoi."

\* for doc in rag_context: if doc.get("doc_id") == selected_doc_id: ... break
first_match(rag_context, doc_id) ==
    LET hits == {i \in 1..Len(rag_context) : rag_context[i].doc_id = doc_id}
    IN  IF hits = {} THEN 0 ELSE CHOOSE i \in hits : \A j \in hits : i <= j

\* Mutant of media_paths: the oracle's flags are trusted without looking at
\* what the record exposes.
media_paths_trusting(response, rag_context) ==
    LET i == IF Truthy(response.selected_doc_id) /\ rag_context # <<>>
             THEN first_match(rag_context, response.selected_doc_id) ELSE 0
    IN  [image_path |->
            IF i # 0 /\ response.should_return_image
            THEN rag_context[i].image_path ELSE NoneVal,
         audio_path |->
            IF i # 0 /\ response.should_return_audio
            THEN rag_context[i].audio_path ELSE NoneVal]

\* image_path / audio_path of the final answer on the lookup-backed path
media_paths(response, rag_context) ==
    LET i == IF Truthy(response.selected_doc_id) /\ rag_context # <<>>
             THEN first_match(rag_context, response.selected_doc_id) ELSE 0
    IN  [image_path |->
            IF i # 0 /\ response.should_return_image /\ Truthy(rag_context[i].image_path)
            THEN rag_context[i].image_path ELSE NoneVal,
         audio_path |->
            IF i # 0 /\ response.should_return_audio /\ Truthy(rag_context[i].audio_path)
            THEN rag_context[i].audio_path ELSE NoneVal]

final_answer(text, image_path, audio_path) ==
    [final_response |->
        [text_response |-> text, image_path |-> image_path, audio_path |-> audio_path],
     messages |-> <<AIMessage(text)>>]

generate_direct_response(state, out) ==
    IF out.kind = "raised" THEN Raised("OracleError", TRUE)
    ELSE IF out.kind = "none"
    THEN Returned(final_answer(FALLBACK_DIRECT, NoneVal, NoneVal), TRUE)
    ELSE Returned(final_answer(out.response.text_response, NoneVal, NoneVal), TRUE)

generate_response(state, out) ==
    LET needs_rag == Get(state, "needs_rag", TRUE)
        rag_context == Get(state, "rag_context", <<>>)
    IN  IF ~needs_rag THEN generate_direct_response(state, out)
        ELSE IF out.kind = "raised" THEN Raised("OracleError", TRUE)
        ELSE IF out.kind = "none"
        THEN Returned(final_answer(FALLBACK_RAG, NoneVal, NoneVal), TRUE)
        ELSE LET paths == media_paths(out.response, rag_context)
             IN  Returned(final_answer(out.response.text_response,
                                       paths.image_path, paths.audio_path), TRUE)

(***************************************************************************)
(* The graph: one run of the pipeline on a thread.  The state of a thread  *)
(* is checkpointed after every node, so the keys a run does not write keep *)
(* the values of the thread's earlier runs.                                *)
(***************************************************************************)
\* The node a route name leads to.
NodeOf(route) ==
    CASE route = "extract" -> "extract_and_validate"
      [] route = "retrieve" -> "retrieve_from_rag"
      [] route = "generate" -> "generate_response"
      [] route = "end" -> "done"

Running == p_thread # NoThread /\ p_pc \notin {"idle", "done", "failed"}

\* The effect of a node call on the run: the call is logged, an exception ends
\* the run, a returned update is merged and the run moves on to `next`.
NodeStep(node, res, out, next) ==
    /\ p_calls' = Append(p_calls, node)
    /\ p_oracle' = IF res.oracle
                   THEN Append(p_oracle, [node |-> node, out |-> out])
                   ELSE p_oracle
    /\ IF res.raised
       THEN /\ p_pc' = "failed"
            /\ p_state' = p_state
       ELSE /\ p_state' = [p_state EXCEPT ![p_thread] = Merge(@, res.update)]
            /\ p_pc' = next
    /\ UNCHANGED <<p_thread, p_runs>>

\* graph.invoke({"input_text": text, "input_image": image}, thread_id = t)
Invoke(t, text, image) ==
    /\ p_pc \in {"idle", "done", "failed"}
    /\ p_runs < MaxRuns
    /\ p_state' = [p_state EXCEPT ![t] =
                      [@ EXCEPT !.input_text = Some(text), !.input_image = Some(image)]]
    /\ p_thread' = t
    /\ p_pc' = "rephrase_query"
    /\ p_calls' = <<>>
    /\ p_oracle' = <<>>
    /\ p_runs' = p_runs + 1
    /\ UNCHANGED p_accepted
    /\ UNCHANGED <<svars, avars, hvars, rvars, fvars, gvars, xvars>>

StartRun == \E t \in Threads, text \in InputTexts, image \in InputImages :
                Invoke(t, text, image)

RephraseQuery ==
    /\ p_pc = "rephrase_query"
    /\ \E out \in OracleOutcomes(RephraseResponse) :
        NodeStep("rephrase_query", rephrase_query(p_state[p_thread], out), out,
                 "check_relevance")
    /\ UNCHANGED p_accepted
    /\ UNCHANGED <<svars, avars, hvars, rvars, fvars, gvars, xvars>>

CheckRelevance ==
    /\ p_pc = "check_relevance"
    /\ \E out \in OracleOutcomes(RelevanceResponse) :
        LET res == check_relevance(p_state[p_thread], out)
            after == IF res.raised THEN p_state[p_thread]
                     ELSE Merge(p_state[p_thread], res.update)
        IN  /\ NodeStep("check_relevance", res, out,
                        NodeOf(check_relevance_route(after)))
            /\ p_accepted' =
                   IF ~res.raised /\ res.update.is_chemistry_related
                   THEN p_accepted \cup {p_thread} ELSE p_accepted
    /\ UNCHANGED <<svars, avars, hvars, rvars, fvars, gvars, xvars>>

ExtractAndValidate ==
    /\ p_pc = "extract_and_validate"
    /\ \E out \in OracleOutcomes(ExtractionResponse) :
        LET res == extract_and_validate(p_state[p_thread], out)
            after == IF res.raised THEN p_state[p_thread]
                     ELSE Merge(p_state[p_thread], res.update)
        IN  NodeStep("extract_and_validate", res, out,
                     NodeOf(check_validity_route(after)))
    /\ UNCHANGED p_accepted
    /\ UNCHANGED <<svars, avars, hvars, rvars, fvars, gvars, xvars>>

\* The conditional edge after extract_and_validate, taken from a state the
\* node has returned.
RouteValidity ==
    /\ p_pc = "extracted"
    /\ p_pc' = NodeOf(check_validity_route(p_state[p_thread]))
    /\ UNCHANGED <<p_state, p_thread, p_calls, p_oracle, p_runs, p_accepted>>
    /\ UNCHANGED <<svars, avars, hvars, rvars, fvars, gvars, xvars>>

RetrieveFromRag ==
    /\ p_pc = "retrieve_from_rag"
    /\ \E found \in SearchOutcomes :
        NodeStep("retrieve_from_rag", retrieve_from_rag(p_state[p_thread], found),
                 found, "generate_response")
    /\ UNCHANGED p_accepted
    /\ UNCHANGED <<svars, avars, hvars, rvars, fvars, gvars, xvars>>

GenerateResponse ==
    /\ p_pc = "generate_response"
    /\ \E out \in OracleOutcomes(FinalResponse) :
        NodeStep("generate_response", generate_response(p_state[p_thread], out),
                 out, "done")
    /\ UNCHANGED p_accepted
    /\ UNCHANGED <<svars, avars, hvars, rvars, fvars, gvars, xvars>>

\* No run has been started.
PInit ==
    /\ p_state = [t \in Threads |-> EmptyState]
    /\ p_thread = NoThread
    /\ p_pc = "idle"
    /\ p_calls = <<>>
    /\ p_oracle = <<>>
    /\ p_runs = 0
    /\ p_accepted = {}

\* The whole pipeline, run after run.
PNext == StartRun \/ RephraseQuery \/ CheckRelevance \/ ExtractAndValidate

(***************************************************************************)
(* The nodes downstream of extract_and_validate, applied to every state    *)
(* their signatures admit: the state handed over is any AgentState in      *)
(* which the upstream keys are set and needs_rag, is_valid, search_query   *)
(* and rag_context are each absent or set.                                 *)
(***************************************************************************)
History == <<HumanMessage("q"), AIMessage("answer"), HumanMessage("q")>>

ExtractedStates ==
    {[EmptyState EXCEPT
        !.messages = m,
        !.input_text = Some("q"), !.input_image = Some(NoneVal),
        !.rephrased_query = Some("q"), !.is_chemistry_related = Some(TRUE),
        !.error_message = Some(NoneVal),
        !.search_query = sq, !.is_valid = iv, !.needs_rag = nr,
        !.rag_context = rc] :
        m \in {<<HumanMessage("q")>>, History},
        sq \in {Unset, Some("Ethanol")},
        iv \in {Unset, Some(TRUE), Some(FALSE)},
        nr \in {Unset, Some(TRUE), Some(FALSE)},
        rc \in {Unset, Some(<<CHOOSE d \in Docs : d.image_path = "d1.png">>)}}

NInit ==
    /\ p_state \in {[t \in Threads |-> IF t = "t1" THEN st ELSE EmptyState] :
                        st \in ExtractedStates}
    /\ p_thread = "t1"
    /\ p_pc = "extracted"
    /\ p_calls = <<"rephrase_query", "check_relevance", "extract_and_validate">>
    /\ p_oracle = <<>>
    /\ p_runs = 1
    /\ p_accepted = {"t1"}

NNext == RouteValidity \/ RetrieveFromRag \/ GenerateResponse

(***************************************************************************)
(* The request entry points: query_chemistry, query_with_upload (main.py)  *)
(* and invoke_agent (agent.py).  Each hands the blocking agent call to a   *)
(* thread pool and waits for it under a timeout.                           *)
(***************************************************************************)
Endpoints == {"query_chemistry", "query_with_upload"}

EntryPoints == Endpoints \cup {"invoke_agent"}

\* main.py and agent.py each build their own agent, checkpointer and pool.
AppOf(ep) == IF ep \in Endpoints THEN "main" ELSE "agent_py"

\* Thread ids: the one a caller passes, or "thread-<random hex>" generated
\* for the n-th request that came without one.
CallerThread == <<"caller", 1>>

GeneratedThread(n) == <<"generated", n>>

NoThreadId == <<"none", 0>>

ThreadIds == {CallerThread} \cup {GeneratedThread(n) : n \in 1..MaxRequests}

\* Keys of the checkpointers' storage.
StoreKeys == {"main", "agent_py"} \X ThreadIds

\* ThreadPoolExecutor(max_workers=...)
PoolSizeMain == 4

PoolSizeAgentPy == 8

PoolSize(app) == IF app = "main" THEN PoolSizeMain ELSE PoolSizeAgentPy

NoMessage == [text |-> NoneVal, image |-> NoneVal, sent |-> FALSE]

NoResponse == [kind |-> "none", what |-> "", cause |-> ""]

\* An ordinary return value, or an exception leaving the entry point.
Value(what, cause) == [kind |-> "value", what |-> what, cause |-> cause]

Exception(what, cause) == [kind |-> "exception", what |-> what, cause |-> cause]

\* str.strip() on the texts a request can carry
strip_text(text) == IF text = " " THEN "" ELSE text

\* Mutant of is_empty_request: only a missing (None) text or image counts as
\* absent, an empty string passes.
is_empty_request_none_only(ep, text, image) ==
    text = NoneVal /\ image = NoneVal

\* if not request.text and not request.image_base64   (query_chemistry)
\* has_text = text and text.strip(); has_image = image is not None;
\* if not has_text and not has_image                  (query_with_upload)
is_empty_request(ep, text, image) ==
    IF ep = "query_chemistry"
    THEN ~Truthy(text) /\ ~Truthy(image)
    ELSE ~(Truthy(text) /\ Truthy(strip_text(text))) /\ image = NoneVal

\* Which parts go into `content`.
has_text_part(ep, text) ==
    IF ep = "query_chemistry" THEN Truthy(text)
    ELSE Truthy(text) /\ Truthy(strip_text(text))

has_image_part(ep, image) ==
    IF ep = "query_chemistry" THEN Truthy(image) ELSE image # NoneVal

\* HumanMessage(content=content if len(content) > 1 else text)
build_message(ep, text, image) ==
    IF has_text_part(ep, text) /\ has_image_part(ep, image)
    THEN [text |-> text, image |-> image, sent |-> TRUE]
    ELSE [text |-> text, image |-> NoneVal, sent |-> TRUE]

\* What a request can carry.
RequestTexts(ep) ==
    IF ep = "query_with_upload" THEN {NoneVal, "", " ", "q"} ELSE {NoneVal, "", "q"}

RequestImages(ep) ==
    IF ep = "query_with_upload" THEN {NoneVal, "file"} ELSE {NoneVal, "", "b64"}

\* How an agent run ends when it ends: with an answer, a polite refusal
\* (out of the domain), a "not in my data" answer (lookup found nothing), an
\* exception from the language model, or an exception from the checkpointer.
RunOutcomes == {"answer", "rejection", "not_found", "oracle_error", "storage_error"}

Answers == {"answer", "rejection", "not_found"}

CauseOf(outcome) ==
    CASE outcome = "answer" -> "answered"
      [] outcome = "rejection" -> "domain_rejection"
      [] outcome = "not_found" -> "validation_failure"
      [] outcome = "oracle_error" -> "oracle_failure"
      [] outcome = "storage_error" -> "storage_unavailable"

running_jobs(app) ==
    Cardinality({i \in 1..Len(a_reqs) :
                    AppOf(a_reqs[i].ep) = app /\ a_reqs[i].job = "running"})

\* A request arrives at query_chemistry / query_with_upload: the handler runs
\* up to its first await.  An empty request raises HTTPException(400) at
\* once; otherwise the thread id is settled, the message is built and the
\* agent call is queued on the pool.
SubmitQuery(ep, text, image, thread_id) ==
    /\ Len(a_reqs) < MaxRequests
    /\ IF is_empty_request(ep, text, image)
       THEN /\ a_reqs' = Append(a_reqs,
                    [ep |-> ep,
                     no_input |-> ~Truthy(text) /\ ~Truthy(image),
                     image_given |-> Truthy(image),
                     handed |-> NoMessage, thread_id |-> NoThreadId,
                     before |-> <<>>, job |-> "none", outcome |-> "none",
                     response |-> Exception("HTTPException 400", "empty_input")])
            /\ a_ids' = a_ids
       ELSE LET tid == IF Truthy(thread_id) THEN CallerThread
                       ELSE GeneratedThread(a_ids + 1)
            IN  /\ a_reqs' = Append(a_reqs,
                        [ep |-> ep,
                         no_input |-> ~Truthy(text) /\ ~Truthy(image),
                         image_given |-> Truthy(image),
                         handed |-> build_message(ep, text, image),
                         thread_id |-> tid,
                         before |-> a_memory[<<AppOf(ep), tid>>],
                         job |-> "queued", outcome |-> "none",
                         response |-> NoResponse])
                /\ a_ids' = IF Truthy(thread_id) THEN a_ids ELSE a_ids + 1
    /\ UNCHANGED <<a_memory, a_invocations>>
    /\ UNCHANGED <<svars, pvars, hvars, rvars, fvars, gvars, xvars>>

QueryChemistry ==
    \E text \in RequestTexts("query_chemistry"),
       image \in RequestImages("query_chemistry"),
       thread_id \in {NoneVal, "t1"} :
        SubmitQuery("query_chemistry", text, image, thread_id)

QueryWithUpload ==
    \E text \in RequestTexts("query_with_upload"),
       image \in RequestImages("query_with_upload"),
       thread_id \in {NoneVal, "t1"} :
        SubmitQuery("query_with_upload", text, image, thread_id)

\* invoke_agent(messages, thread_id): no validation, the call is queued.
InvokeAgent ==
    /\ Len(a_reqs) < MaxRequests
    /\ a_reqs' = Append(a_reqs,
            [ep |-> "invoke_agent", no_input |-> FALSE, image_given |-> FALSE,
             handed |-> [text |-> "q", image |-> NoneVal, sent |-> TRUE],
             thread_id |-> CallerThread,
             before |-> a_memory[<<"agent_py", CallerThread>>],
             job |-> "queued", outcome |-> "none", response |-> NoResponse])
    /\ UNCHANGED <<a_memory, a_ids, a_invocations>>
    /\ UNCHANGED <<svars, pvars, hvars, rvars, fvars, gvars, xvars>>

\* A pool worker picks the queued call up: get_agent().invoke(...) starts and
\* the checkpointer records the input message on the thread.
JobStart(i) ==
    /\ a_reqs[i].job = "queued"
    /\ running_jobs(AppOf(a_reqs[i].ep)) < PoolSize(AppOf(a_reqs[i].ep))
    /\ a_reqs' = [a_reqs EXCEPT ![i].job = "running"]
    /\ a_memory' = [a_memory EXCEPT ![<<AppOf(a_reqs[i].ep), a_reqs[i].thread_id>>] =
                        Append(@, [role |-> "human", req |-> i])]
    /\ a_invocations' = a_invocations + 1
    /\ UNCHANGED a_ids
    /\ UNCHANGED <<svars, pvars, hvars, rvars, fvars, gvars, xvars>>

\* The agent call returns or raises in its worker thread, whether or not
\* anybody still waits for it; an answer is checkpointed on the thread.
JobFinish(i, outcome) ==
    /\ a_reqs[i].job = "running"
    /\ a_reqs' = [a_reqs EXCEPT ![i].job = "finished", ![i].outcome = outcome]
    /\ a_memory' =
        IF outcome \in Answers
        THEN [a_memory EXCEPT ![<<AppOf(a_reqs[i].ep), a_reqs[i].thread_id>>] =
                  Append(@, [role |-> "ai", req |-> i])]
        ELSE a_memory
    /\ UNCHANGED <<a_ids, a_invocations>>
    /\ UNCHANGED <<svars, pvars, hvars, rvars, fvars, gvars, xvars>>

\* asyncio.wait_for gives up: a call still queued is cancelled, a call
\* already running in its worker thread keeps running.  The endpoints catch
\* asyncio.TimeoutError and return QueryResponse(success=False, error=...);
\* invoke_agent does not catch it.
on_timeout(ep) ==
    IF ep \in Endpoints
    THEN Value("QueryResponse success=False", "timeout")
    ELSE Exception("TimeoutError", "timeout")

Timeout(i) ==
    /\ a_reqs[i].response = NoResponse
    /\ a_reqs[i].job \in {"queued", "running"}
    /\ a_reqs' = [a_reqs EXCEPT
                    ![i].response = on_timeout(a_reqs[i].ep),
                    ![i].job = IF @ = "queued" THEN "cancelled" ELSE @]
    /\ UNCHANGED <<a_memory, a_ids, a_invocations>>
    /\ UNCHANGED <<svars, pvars, hvars, rvars, fvars, gvars, xvars>>

\* The awaited call completed in time.  An answer becomes a success value;
\* an exception of the agent becomes HTTPException(500) in the endpoints
\* (except Exception -> raise HTTPException) and propagates from invoke_agent.
on_completion(ep, outcome) ==
    IF outcome \in Answers
    THEN Value("success", CauseOf(outcome))
    ELSE IF ep \in Endpoints
    THEN Exception("HTTPException 500", CauseOf(outcome))
    ELSE Exception("agent exception", CauseOf(outcome))

Deliver(i) ==
    /\ a_reqs[i].response = NoResponse
    /\ a_reqs[i].job = "finished"
    /\ a_reqs' = [a_reqs EXCEPT
                    ![i].response = on_completion(a_reqs[i].ep, a_reqs[i].outcome)]
    /\ UNCHANGED <<a_memory, a_ids, a_invocations>>
    /\ UNCHANGED <<svars, pvars, hvars, rvars, fvars, gvars, xvars>>

WorkerStarts == \E i \in 1..Len(a_reqs) : JobStart(i)

WorkerFinishes == \E i \in 1..Len(a_reqs), outcome \in RunOutcomes : JobFinish(i, outcome)

TimeoutFires == \E i \in 1..Len(a_reqs) : Timeout(i)

ResultDelivered == \E i \in 1..Len(a_reqs) : Deliver(i)

\* The server has started and no request has arrived.
AInit ==
    /\ a_reqs = <<>>
    /\ a_memory = [k \in StoreKeys |-> <<>>]
    /\ a_ids = 0
    /\ a_invocations = 0

ANext ==
    \/ QueryChemistry
    \/ QueryWithUpload
    \/ InvokeAgent
    \/ WorkerStarts
    \/ WorkerFinishes
    \/ TimeoutFires
    \/ ResultDelivered

(***************************************************************************)
(* The worker pool of main.py under load: text requests to query_chemistry *)
(* on the caller's thread, more of them than the pool has workers.  The    *)
(* runs of the first PoolSizeMain requests never return; a later run       *)
(* answers.                                                                *)
(***************************************************************************)
PoolRequest ==
    /\ Len(a_reqs) < MaxPoolRequests
    /\ ~is_empty_request("query_chemistry", "q", NoneVal)
    /\ a_reqs' = Append(a_reqs,
            [ep |-> "query_chemistry", no_input |-> FALSE, image_given |-> FALSE,
             handed |-> build_message("query_chemistry", "q", NoneVal),
             thread_id |-> CallerThread,
             before |-> a_memory[<<"main", CallerThread>>],
             job |-> "queued", outcome |-> "none", response |-> NoResponse])
    /\ UNCHANGED <<a_memory, a_ids, a_invocations>>
    /\ UNCHANGED <<svars, pvars, hvars, rvars, fvars, gvars, xvars>>

RunAnswers == \E i \in (PoolSizeMain + 1)..Len(a_reqs) : JobFinish(i, "answer")

PoolNext ==
    \/ PoolRequest
    \/ WorkerStarts
    \/ RunAnswers
    \/ TimeoutFires
    \/ ResultDelivered

(***************************************************************************)
(* Reading the recent history of a thread: the prior turn read by          *)
(* rephrase_query (agent/nodes/rephrase.py) and the context read by        *)
(* _get_conversation_context (agent/nodes/generate.py).  A message content *)
(* is [id, len]: the turn it belongs to and its length in characters; ""   *)
(* is [id |-> 0, len |-> 0].                                               *)
(***************************************************************************)
\* max_turns: int = 2
DEFAULT_MAX_TURNS == 2

\* The character limits of the readers: str(msg.content)[:200], [:600] and
\* prev_answer[:300].
USER_CHARS == 200

CHEMI_CHARS == 600

PREV_ANSWER_CHARS == 300

\* content[:n]
truncate(content, n) == [content EXCEPT !.len = IF @ > n THEN n ELSE @]

\* messages[-k:]
last_k(messages, k) ==
    IF Len(messages) >= k
    THEN SubSeq(messages, Len(messages) - k + 1, Len(messages))
    ELSE messages

\* The last value `role` messages of `messages` leave in a variable that
\* starts as "":  for msg in messages: if isinstance(msg, role): v = msg.content
last_content(messages, role) ==
    LET hits == {i \in 1..Len(messages) : messages[i].role = role}
    IN  IF hits = {} THEN [id |-> 0, len |-> 0]
        ELSE messages[CHOOSE i \in hits : \A j \in hits : j <= i].content

\* rephrase_query, follow-up turn: the previous question and the (shortened)
\* previous answer that go into the prompt.
previous_turn(messages) ==
    LET recent_messages == IF Len(messages) >= 2 THEN last_k(messages, 2) ELSE messages
        prev_question == last_content(recent_messages, "human")
        prev_answer == last_content(recent_messages, "ai")
    IN  [prev_question |-> prev_question,
         prev_answer_short |-> truncate(prev_answer, PREV_ANSWER_CHARS)]

\* One line of the context: "User: ..." or "CHEMI: ...".
context_part(msg) ==
    IF msg.role = "human"
    THEN [speaker |-> "User", content |-> truncate(msg.content, USER_CHARS)]
    ELSE [speaker |-> "CHEMI", content |-> truncate(msg.content, CHEMI_CHARS)]

\* _get_conversation_context(messages, max_turns): the lines of the string it
\* returns.  recent = messages[-(max_turns * 2 + 1):-1] or messages[:-1]
get_conversation_context(messages, max_turns) ==
    IF Len(messages) < 2 THEN <<>>
    ELSE LET window == IF Len(messages) > max_turns * 2
                       THEN last_k(messages, max_turns * 2 + 1)
                       ELSE messages
             recent == SubSeq(window, 1, Len(window) - 1)
         IN  [i \in 1..Len(recent) |-> context_part(recent[i])]

\* rephrase_query runs on the thread: on a follow-up turn it reads the
\* previous turn; then the question of the new turn is stored.
HRephrase ==
    /\ h_pc = "idle"
    /\ Len(h_turns) < MaxTurns
    /\ h_messages' = Append(h_messages,
                            HumanMessage([id |-> Len(h_turns) + 1, len |-> 20]))
    /\ h_read' = IF h_messages = <<>> THEN h_read
                 ELSE [reader |-> "rephrase_query", n |-> 1,
                       pair |-> previous_turn(h_messages),
                       context |-> <<>>,
                       prior |-> h_turns]
    /\ h_turns' = Append(h_turns, [id |-> Len(h_turns) + 1, complete |-> FALSE])
    /\ h_pc' = "asked"
    /\ UNCHANGED <<svars, pvars, avars, rvars, fvars, gvars, xvars>>

\* generate_response runs: it reads the context, then the answer of the turn
\* (short, or longer than every character limit) is stored.
HGenerate ==
    /\ h_pc = "asked"
    /\ \E max_turns \in 1..DEFAULT_MAX_TURNS, len \in {40, 700} :
        /\ h_read' = [reader |-> "generate_response", n |-> max_turns,
                      pair |-> previous_turn(<<>>),
                      context |-> get_conversation_context(h_messages, max_turns),
                      prior |-> SubSeq(h_turns, 1, Len(h_turns) - 1)]
        /\ h_messages' = Append(h_messages,
                                AIMessage([id |-> Len(h_turns), len |-> len]))
    /\ h_turns' = [h_turns EXCEPT ![Len(h_turns)].complete = TRUE]
    /\ h_pc' = "idle"
    /\ UNCHANGED <<svars, pvars, avars, rvars, fvars, gvars, xvars>>

\* The run ends without generate_response: the relevance gate rejected it,
\* or a node raised.  Nothing is stored or removed.
HEndWithoutAnswer ==
    /\ h_pc = "asked"
    /\ h_pc' = "idle"
    /\ UNCHANGED <<h_messages, h_turns, h_read>>
    /\ UNCHANGED <<svars, pvars, avars, rvars, fvars, gvars, xvars>>

\* A thread with no message.
HInit ==
    /\ h_messages = <<>>
    /\ h_turns = <<>>
    /\ h_pc = "idle"
    /\ h_read = [reader |-> "none", n |-> 0, pair |-> previous_turn(<<>>),
                 context |-> <<>>, prior |-> <<>>]

HNext == HRephrase \/ HGenerate \/ HEndWithoutAnswer

(***************************************************************************)
(* generate_structured: the retry loop around the oracle call              *)
(* (services/gemini_service.py)                                            *)
(***************************************************************************)
\* max_retries: int = 3, retry_delay: int = 10
DEFAULT_MAX_RETRIES == 3

DEFAULT_RETRY_DELAY == 10

\* The texts str(e) of the errors the oracle call can raise, as sequences of
\* text fragments.  The last one is a malformed-input error whose text holds
\* the digits 503 in a token count.
ErrorTexts == {
    <<"429", " ", "RESOURCE_EXHAUSTED">>,
    <<"503", " ", "UNAVAILABLE">>,
    <<"The", " ", "model", " ", "is", " ", "overload", "ed">>,
    <<"Rate", " ", "Limit", " ", "reached">>,
    <<"400", " ", "INVALID_ARGUMENT">>,
    <<"403", " ", "PERMISSION_DENIED">>,
    <<"400", " ", "INVALID_ARGUMENT", " ", "token", " ", "count", " ", "1", "503", "2">> }

\* str(e).lower()
error_message(text) ==
    LET lower_fragment(f) ==
            CASE f = "RESOURCE_EXHAUSTED" -> "resource_exhausted"
              [] f = "UNAVAILABLE" -> "unavailable"
              [] f = "The" -> "the"
              [] f = "Rate" -> "rate"
              [] f = "Limit" -> "limit"
              [] f = "INVALID_ARGUMENT" -> "invalid_argument"
              [] f = "PERMISSION_DENIED" -> "permission_denied"
              [] OTHER -> f
    IN  [i \in 1..Len(text) |-> lower_fragment(text[i])]

OVERLOAD_KEYWORDS == {
    <<"resource", " ", "exhausted">>,
    <<"overload">>,
    <<"rate", " ", "limit">>,
    <<"429">>,
    <<"503">>,
    <<"too", " ", "many", " ", "requests">>,
    <<"quota", " ", "exceeded">> }

\* any(keyword in error_message for keyword in [...])
is_overload(text) ==
    \E keyword \in OVERLOAD_KEYWORDS : is_substring(keyword, error_message(text))

\* Mutant of may_retry: the last attempt is retried too.
may_retry_on_last(attempt, max_retries) == attempt < max_retries

\* `attempt < max_retries - 1`, attempt counted from 0
may_retry(attempt, max_retries) == attempt < max_retries - 1

\* One iteration of `for attempt in range(max_retries)`: the call, which
\* returns a response (response.parsed is an object of the schema, or None)
\* or raises, and what the except clause does with an error.  When the loop runs out after a
\* retry decision, `raise last_error` after the loop raises the error.
Attempt ==
    /\ r_status = "calling"
    /\ Len(r_outcomes) < r_max
    /\ \E outcome \in {[kind |-> "ok", parsed |-> p] : p \in {"parsed", NoneVal}}
                     \cup {[kind |-> "error", text |-> e] : e \in ErrorTexts} :
        LET attempt == Len(r_outcomes)
        IN  /\ r_outcomes' = Append(r_outcomes, outcome)
            /\ IF outcome.kind = "ok"
               THEN /\ r_status' = "returned"
                    /\ r_result' = [kind |-> "value", parsed |-> outcome.parsed]
                    /\ r_delays' = r_delays
               ELSE IF is_overload(outcome.text) /\ may_retry(attempt, r_max)
               THEN /\ r_delays' = Append(r_delays, DEFAULT_RETRY_DELAY)
                    /\ r_status' = IF attempt + 1 < r_max THEN "calling" ELSE "raised"
                    /\ r_result' = IF attempt + 1 < r_max THEN r_result
                                   ELSE [kind |-> "error", text |-> outcome.text]
               ELSE /\ r_status' = "raised"
                    /\ r_result' = [kind |-> "error", text |-> outcome.text]
                    /\ r_delays' = r_delays
    /\ r_max' = r_max
    /\ UNCHANGED <<svars, pvars, avars, hvars, fvars, gvars, xvars>>

\* generate_structured has been called with max_retries attempts allowed.
RInit ==
    /\ r_max \in 1..DEFAULT_MAX_RETRIES
    /\ r_outcomes = <<>>
    /\ r_delays = <<>>
    /\ r_status = "calling"
    /\ r_result = [kind |-> "none"]

(***************************************************************************)
(* hybrid_search  (services/qdrant_service.py): two prefetch rankings      *)
(* (dense, sparse) fused by reciprocal rank fusion inside the search       *)
(* engine, the top `limit` of the fusion returned to the service, which    *)
(* then drops the points whose score is below the threshold.  Scores are   *)
(* fractions <<numerator, denominator>>.                                   *)
(***************************************************************************)
\* Prefetch(..., limit=10)
PREFETCH_LIMIT == 10

\* The constant k of the fusion.
RRF_K == 60

\* What a ranking can be: some candidates, each at most once, best first.
Rankings ==
    {r \in UNION {[1..n -> {"c1", "c2", "c3"}] : n \in 0..MaxRanked} :
        \A i, j \in 1..Len(r) : i # j => r[i] # r[j]}

\* The points a prefetch returns: the ranking with its raw similarity
\* values (on the scale of the execution), cut at the prefetch limit.
prefetch(ranking, scale) ==
    LET n == IF Len(ranking) > PREFETCH_LIMIT THEN PREFETCH_LIMIT ELSE Len(ranking)
    IN  [i \in 1..n |-> [id |-> ranking[i], score |-> <<scale * (MaxRanked + 1 - i), 1>>]]

\* What a ranking contributes to a candidate: 1 / (k + rank), rank counted
\* from 1, and nothing when the candidate is absent from the ranking.
rank_contribution(points, id) ==
    LET hits == {i \in 1..Len(points) : points[i].id = id}
    IN  IF hits = {} THEN <<0, 1>>
        ELSE <<1, RRF_K + (CHOOSE i \in hits : TRUE)>>

\* fused_score = sum over the rankings of the contributions
fused_score(dense, sparse, id) ==
    LET a == rank_contribution(dense, id)
        b == rank_contribution(sparse, id)
    IN  <<a[1] * b[2] + b[1] * a[2], a[2] * b[2]>>

\* Sort candidates by fused score, highest first.  Candidates with equal
\* scores are taken to stay in the order the fusion first meets them (those
\* of the dense ranking, then those only in the sparse ranking).
fused_order(dense, sparse) ==
    LET dense_ids == [i \in 1..Len(dense) |-> dense[i].id]
        sparse_ids == [i \in 1..Len(sparse) |-> sparse[i].id]
        seen == dense_ids \o SelectSeq(sparse_ids,
                    LAMBDA id : \A i \in 1..Len(dense_ids) : dense_ids[i] # id)
        n == Len(seen)
        score(i) == fused_score(dense, sparse, seen[i])
        ahead(i, j) == IF frac_geq(score(i), score(j)) /\ frac_geq(score(j), score(i))
                       THEN i < j
                       ELSE frac_geq(score(i), score(j))
        p == CHOOSE q \in [1..n -> 1..n] :
                /\ \A i, j \in 1..n : i # j => q[i] # q[j]
                /\ \A i, j \in 1..n : i < j => ahead(q[i], q[j])
    IN  [i \in 1..n |-> seen[p[i]]]

\* Mutant of query_points: a plain dense query, no fusion.
query_points_dense_only(dense, sparse, limit) ==
    SubSeq(dense, 1, IF Len(dense) > limit THEN limit ELSE Len(dense))

\* client.query_points(prefetch=[dense, sparse], query=FusionQuery(RRF),
\* limit=limit): the first `limit` points of the fusion
query_points(dense, sparse, limit) ==
    LET order == fused_order(dense, sparse)
        n == IF Len(order) > limit THEN limit ELSE Len(order)
    IN  [i \in 1..n |-> [id |-> order[i], score |-> fused_score(dense, sparse, order[i])]]

\* Mutant of hybrid_search: the threshold is not applied.
hybrid_search_unfiltered(dense, sparse, limit, threshold) ==
    query_points(dense, sparse, limit)

\* hybrid_search: the points of query_points whose score is at least the
\* threshold:  [... for point in results.points if point.score >= threshold]
hybrid_search(dense, sparse, limit, threshold) ==
    SelectSeq(query_points(dense, sparse, limit),
              LAMBDA point : frac_geq(point.score, threshold))

\* The same query is searched twice over an unchanged collection: the two
\* executions see the same rankings, with raw similarity values on the
\* scales f_raw.
HybridSearch ==
    /\ f_pc = "idle"
    /\ f_results' =
        [e \in 1..2 |->
            hybrid_search(prefetch(f_dense, f_raw[e].dense),
                          prefetch(f_sparse, f_raw[e].sparse),
                          f_limit, f_threshold)]
    /\ f_pc' = "done"
    /\ UNCHANGED <<f_dense, f_sparse, f_raw, f_limit, f_threshold>>
    /\ UNCHANGED <<svars, pvars, avars, hvars, rvars, gvars, xvars>>

\* A query whose rankings are any two rankings, with a limit and a threshold:
\* none, the score of a candidate first in one ranking, the score of a
\* candidate first in both, or the default 0.4.
FInit ==
    /\ f_dense \in Rankings
    /\ f_sparse \in Rankings
    /\ f_raw \in {<<[dense |-> 1, sparse |-> 1], [dense |-> d, sparse |-> s]>> :
                    d \in {1, 7}, s \in {1, 7}}
    /\ f_limit \in 1..MaxLimit
    /\ f_threshold \in {<<0, 1>>, <<1, 61>>, <<2, 61>>, <<2, 5>>}
    /\ f_results = <<>>
    /\ f_pc = "idle"

(***************************************************************************)
(* The lazily built agent: build_agent / get_memory (agent/graph.py) and   *)
(* get_agent (agent.py), called from the pool's worker threads with no     *)
(* lock.  A thread can be switched between any two statements.  Agents and *)
(* checkpointers are numbered in the order of their creation; 0 is None.   *)
(***************************************************************************)
\* if _agent is not None: return _agent      (graph.py)
\* if _agent: return _agent                  (agent.py)
CheckAgent(c) ==
    /\ g_call[c].pc = "start"
    /\ g_call' = [g_call EXCEPT ![c].pc =
                    IF g_agent # 0 THEN "return"
                    ELSE IF g_impl = "graph" THEN "get_memory" ELSE "create",
                  ![c].mem = IF g_impl = "graph" THEN @ ELSE g_memory]
    /\ UNCHANGED <<g_impl, g_agent, g_memory, g_agents, g_memories>>
    /\ UNCHANGED <<svars, pvars, avars, hvars, rvars, fvars, xvars>>

\* get_memory(), one statement at a time:
\* if _memory is None / _memory = MemorySaver() / return _memory
GetMemory(c) ==
    /\ g_call[c].pc \in {"get_memory", "new_memory", "return_memory"}
    /\ CASE g_call[c].pc = "get_memory" ->
              /\ g_call' = [g_call EXCEPT ![c].pc =
                              IF g_memory = 0 THEN "new_memory" ELSE "return_memory"]
              /\ UNCHANGED <<g_memory, g_memories>>
         [] g_call[c].pc = "new_memory" ->
              /\ g_memories' = g_memories + 1
              /\ g_memory' = g_memories + 1
              /\ g_call' = [g_call EXCEPT ![c].pc = "return_memory"]
         [] g_call[c].pc = "return_memory" ->
              /\ g_call' = [g_call EXCEPT ![c].pc = "create", ![c].mem = g_memory]
              /\ UNCHANGED <<g_memory, g_memories>>
    /\ UNCHANGED <<g_impl, g_agent, g_agents>>
    /\ UNCHANGED <<svars, pvars, avars, hvars, rvars, fvars, xvars>>

\* _agent = create_agent(..., checkpointer=...)
CreateAgent(c) ==
    /\ g_call[c].pc = "create"
    /\ g_agents' = Append(g_agents, g_call[c].mem)
    /\ g_agent' = Len(g_agents) + 1
    /\ g_call' = [g_call EXCEPT ![c].pc = "return"]
    /\ UNCHANGED <<g_impl, g_memory, g_memories>>
    /\ UNCHANGED <<svars, pvars, avars, hvars, rvars, fvars, xvars>>

\* return _agent
ReturnAgent(c) ==
    /\ g_call[c].pc = "return"
    /\ g_call' = [g_call EXCEPT ![c].pc = "done", ![c].ret = g_agent]
    /\ UNCHANGED <<g_impl, g_agent, g_memory, g_agents, g_memories>>
    /\ UNCHANGED <<svars, pvars, avars, hvars, rvars, fvars, xvars>>

\* The module has been imported (agent.py has built its _checkpointer, no
\* agent exists) and the first requests have reached their worker threads.
GInit ==
    /\ g_impl \in {"graph", "agent_py"}
    /\ g_agent = 0
    /\ g_memory = (IF g_impl = "graph" THEN 0 ELSE 1)
    /\ g_memories = (IF g_impl = "graph" THEN 0 ELSE 1)
    /\ g_agents = <<>>
    /\ g_call = [c \in 1..MaxCallers |-> [pc |-> "start", mem |-> 0, ret |-> 0]]

GNext ==
    \E c \in 1..MaxCallers :
        \/ CheckAgent(c)
        \/ GetMemory(c)
        \/ CreateAgent(c)
        \/ ReturnAgent(c)

(***************************************************************************)
(* parse_structured_response  (main.py)                                    *)
(***************************************************************************)
\* What `content` can be: the text of a JSON object with any of the three
\* keys (text_response a string, a string with a markdown image, null or a
\* number), valid JSON that is no object, text that is not JSON, or no string
\* at all (None, or the list of parts of a multimodal message).
ParseContents ==
    {[kind |-> "object", text_response |-> t, image_url |-> i, audio_url |-> a] :
        t \in {Unset, Some("answer"), Some("![s](u) answer"), Some(NoneVal),
               Some("<number>")},
        i \in {Unset, Some(NoneVal), Some("img.png"), Some("http://img")},
        a \in {Unset, Some(NoneVal), Some("a.wav")}}
    \cup {[kind |-> k] : k \in {"number", "list", "string", "null", "bool",
                                "plain_text", "not_a_string"}}

\* json.loads(content); data.get(...); re.sub(...).strip(); the except
\* clause catches json.JSONDecodeError and TypeError only.
parse_structured_response(content) ==
    LET fallback == [kind |-> "returned", text |-> "<content>",
                     image_url |-> NoneVal, audio_url |-> NoneVal]
    IN  CASE content.kind \in {"plain_text", "not_a_string"} -> fallback
          [] content.kind \in {"number", "list", "string", "null", "bool"} ->
                [kind |-> "raised", exc |-> "AttributeError"]
          [] content.kind = "object" ->
                LET text_response == Get(content, "text_response", "<content>")
                IN  IF text_response \in {NoneVal, "<number>"}
                    THEN fallback
                    ELSE [kind |-> "returned",
                          text |-> IF text_response = "![s](u) answer"
                                   THEN "answer" ELSE text_response,
                          image_url |-> Get(content, "image_url", NoneVal),
                          audio_url |-> Get(content, "audio_url", NoneVal)]

\* The endpoint hands the content of the last message to the function.
ParseResponse ==
    /\ x_result = [kind |-> "none"]
    /\ x_result' = parse_structured_response(x_content)
    /\ UNCHANGED x_content
    /\ UNCHANGED <<svars, pvars, avars, hvars, rvars, fvars, gvars>>

XInit ==
    /\ x_content \in ParseContents
    /\ x_result = [kind |-> "none"]

(***************************************************************************)
(* Specifications                                                          *)
(***************************************************************************)
\* The parts that a specification does not exercise stay in their initial
\* state.
SIdle ==
    /\ s_compounds = <<>>
    /\ s_query = <<>>
    /\ s_result = NoResult
    /\ s_pc = "idle"

RIdle ==
    /\ r_max = DEFAULT_MAX_RETRIES
    /\ r_outcomes = <<>>
    /\ r_delays = <<>>
    /\ r_status = "idle"
    /\ r_result = [kind |-> "none"]

FIdle ==
    /\ f_dense = <<>>
    /\ f_sparse = <<>>
    /\ f_raw = <<>>
    /\ f_limit = 0
    /\ f_threshold = <<0, 1>>
    /\ f_results = <<>>
    /\ f_pc = "off"

GIdle ==
    /\ g_impl = "none"
    /\ g_agent = 0
    /\ g_memory = 0
    /\ g_agents = <<>>
    /\ g_memories = 0
    /\ g_call = <<>>

XIdle ==
    /\ x_content = [kind |-> "none"]
    /\ x_result = [kind |-> "none"]

\* The node pipeline on its threads.
Init == PInit /\ SIdle /\ AInit /\ HInit /\ RIdle /\ FIdle /\ GIdle /\ XIdle

Spec == Init /\ [][PNext]_vars

\* The nodes downstream of extract_and_validate on every state they admit.
InitNodes == NInit /\ SIdle /\ AInit /\ HInit /\ RIdle /\ FIdle /\ GIdle /\ XIdle

SpecNodes == InitNodes /\ [][NNext]_vars

\* search_compound on every catalog and key.
InitSearch == SInit /\ PInit /\ AInit /\ HInit /\ RIdle /\ FIdle /\ GIdle /\ XIdle

SpecSearch == InitSearch /\ [][SNext]_vars

\* The request entry points under concurrent requests.
InitApi == AInit /\ SIdle /\ PInit /\ HInit /\ RIdle /\ FIdle /\ GIdle /\ XIdle

SpecApi == InitApi /\ [][ANext]_vars

\* The worker pool of main.py with more requests than workers.
InitPool == AInit /\ SIdle /\ PInit /\ HInit /\ RIdle /\ FIdle /\ GIdle /\ XIdle

SpecPool == InitPool /\ [][PoolNext]_vars

\* The history of one thread and its readers.
InitHistory == HInit /\ SIdle /\ PInit /\ AInit /\ RIdle /\ FIdle /\ GIdle /\ XIdle

SpecHistory == InitHistory /\ [][HNext]_vars

\* One call of generate_structured.
InitRetry == RInit /\ SIdle /\ PInit /\ AInit /\ HInit /\ FIdle /\ GIdle /\ XIdle

SpecRetry == InitRetry /\ [][Attempt]_vars

\* One query searched twice by hybrid_search.
InitFusion == FInit /\ SIdle /\ PInit /\ AInit /\ HInit /\ RIdle /\ GIdle /\ XIdle

SpecFusion == InitFusion /\ [][HybridSearch]_vars

\* Concurrent first calls of get_agent.
InitAgent == GInit /\ SIdle /\ PInit /\ AInit /\ HInit /\ RIdle /\ FIdle /\ XIdle

SpecAgent == InitAgent /\ [][GNext]_vars

\* parse_structured_response on every content.
InitParse == XInit /\ SIdle /\ PInit /\ AInit /\ HInit /\ RIdle /\ FIdle /\ GIdle

SpecParse == InitParse /\ [][ParseResponse]_vars
(***************************************************************************)
(* Claims about search_compound                                            *)
(***************************************************************************)
\* The classification of a key as the claims word it: it contains a digit and
\* no hyphen, or it has at most 2 characters and starts with an uppercase
\* letter.  The tool classifies the key it was given without its surrounding
\* whitespace.
FormulaText(text) ==
    \/ has_digits(text) /\ ~has_hyphen(text)
    \/ Len(text) >= 1 /\ Len(text) <= 2 /\ isupper(text[1])

FormulaKey(key) == FormulaText(strip(key))

\* The record's formula or molecular_formula equals `text` case-insensitively.
FormulaEquals(compound, text) ==
    \/ upper(compound.formula) = upper(text)
    \/ upper(compound.molecular_formula) = upper(text)

\* The record's best similarity to the key over its IUPAC name and all its
\* common names.
BestSimilarity(compound, key) == max_score(compound, strip(lower(key)))

CatalogIndex == 1..Len(s_compounds)

C9_NameThreshold ==
    (s_pc = "returned" /\ ~FormulaKey(s_query) /\ s_compounds # <<>>) =>
        IF \A i \in CatalogIndex :
               ~passes_threshold(BestSimilarity(s_compounds[i], s_query))
        THEN s_result.kind = "no_match"
        ELSE /\ s_result.kind = "record"
             /\ passes_threshold(BestSimilarity(s_result.compound, s_query))

\* C10 as stated: for every key, the empty and the whitespace-only key
\* included, and every non-empty catalog, the call returns a record or the
\* no-match message and never raises.
C10_NeverRaises ==
    (s_pc = "returned" /\ s_compounds # <<>>) =>
        s_result.kind \in {"record", "no_match"}


\* The candidates of the last call, in catalog order, with their rounded
\* scores.
Candidates == collect_results(s_compounds, s_query, <<>>)

\* C24: when search_compound finds at least one candidate, the record it
\* returns has the highest (rounded) score among all candidates, and of
\* several candidates with that score it is the first in catalog order.
C24_BestFirstInCatalogOrder ==
    s_result.kind = "record" =>
        \E k \in 1..Len(Candidates) :
            /\ s_result.compound = Candidates[k].compound
            /\ \A j \in 1..Len(Candidates) : Candidates[j].score <= Candidates[k].score
            /\ \A j \in 1..(k - 1) : Candidates[j].score < Candidates[k].score

\* C24 witness: two different candidates, the second in catalog order with
\* the higher score, and it was returned.
C24_Witness ==
    /\ s_result.kind = "record"
    /\ Len(Candidates) = 2
    /\ Candidates[1].score < Candidates[2].score
    /\ Candidates[1].compound # Candidates[2].compound
    /\ s_result.compound = Candidates[2].compound

(***************************************************************************)
(* Claims about the node pipeline                                          *)
(***************************************************************************)
\* The state of the thread of the current run.
RunState == p_state[p_thread]

\* The nodes called so far in the current run.
Called(node) == \E i \in 1..Len(p_calls) : p_calls[i] = node

\* The relevance gate of the current run returned is_chemistry_related = false.
GateRejected ==
    \E i \in 1..Len(p_oracle) :
        /\ p_oracle[i].node = "check_relevance"
        /\ p_oracle[i].out.kind = "parsed"
        /\ ~p_oracle[i].out.response.is_chemistry_related

NormalizationInvalid ==
    \E i \in 1..Len(p_oracle) :
        /\ p_oracle[i].node = "extract_and_validate"
        /\ p_oracle[i].out.kind = "parsed"
        /\ ~p_oracle[i].out.response.is_valid

\* C2 as stated: when normalization yields is_valid = false, the run still
\* reaches answer synthesis, no catalog lookup is called in it, and
\* rag_context is empty when generate_response runs.
C2_InvalidReachesSynthesis ==
    (NormalizationInvalid /\ p_pc \in {"done", "failed"}) =>
        /\ Called("generate_response")
        /\ ~Called("retrieve_from_rag")
        /\ Get(RunState, "rag_context", <<>>) = <<>>

\* The run has produced its final answer.
Answered ==
    /\ p_pc = "done"
    /\ Called("generate_response")
    /\ RunState.final_response # Unset

\* The oracle output generate_response received.
GenerateOutput == p_oracle[Len(p_oracle)].out

\* A media path of the final answer is justified: needs_rag is true (absent
\* counts as true), the oracle selected a doc_id borne by a record of
\* rag_context and asked for the media kind, and that record has a non-empty
\* path of the kind, which is the path attached.
MediaJustified(path, kind, flag) ==
    /\ Get(RunState, "needs_rag", TRUE)
    /\ GenerateOutput.kind = "parsed"
    /\ GenerateOutput.response.selected_doc_id # NoneVal
    /\ GenerateOutput.response[flag]
    /\ \E i \in 1..Len(Get(RunState, "rag_context", <<>>)) :
        LET doc == Get(RunState, "rag_context", <<>>)[i]
        IN  /\ doc.doc_id = GenerateOutput.response.selected_doc_id
            /\ Truthy(doc[kind])
            /\ path = doc[kind]

\* C3: in every final answer, image_path (audio_path) is non-null only if it
\* is justified as above, and on the direct-knowledge path (needs_rag =
\* false) both are null.
C3_MediaOnlyFromSelectedRecord ==
    Answered =>
        LET answer == RunState.final_response[1]
        IN  /\ answer.image_path # NoneVal =>
                   MediaJustified(answer.image_path, "image_path", "should_return_image")
            /\ answer.audio_path # NoneVal =>
                   MediaJustified(answer.audio_path, "audio_path", "should_return_audio")
            /\ RunState.needs_rag = Some(FALSE) =>
                   answer.image_path = NoneVal /\ answer.audio_path = NoneVal

\* C3 witness: a lookup-backed answer in which the oracle asked for both
\* media kinds, the selected record exposes only audio, and the answer
\* carries the audio and no image.
C3_Witness ==
    /\ Answered
    /\ GenerateOutput.kind = "parsed"
    /\ GenerateOutput.response.should_return_image
    /\ GenerateOutput.response.should_return_audio
    /\ RunState.final_response[1].image_path = NoneVal
    /\ RunState.final_response[1].audio_path # NoneVal

\* rephrase_query has returned in the current run.
RephraseReturned ==
    /\ p_thread # NoThread
    /\ Len(p_calls) >= 1
    /\ ~(p_pc = "failed" /\ Len(p_calls) = 1)

\* rephrase_query has just returned on the first turn of its thread.
FirstTurnRephrased ==
    /\ p_thread # NoThread
    /\ p_calls = <<"rephrase_query">>
    /\ p_pc = "check_relevance"
    /\ Len(RunState.messages) = 1

Cleaned(text) ==
    CASE text \in {NoneVal, "", " "} -> ""
      [] text \in {"q", " q ", "[{text: q }]"} -> "q"
      [] text = "![s](data:b)" -> "[IMAGE]"

C13_RephrasedNeverEmpty ==
    ( /\ RephraseReturned
      /\ Truthy(RunState.input_text[1]) \/ RunState.input_image[1] # NoneVal )
    => /\ RunState.rephrased_query # Unset
       /\ RunState.rephrased_query # Some("")

\* The last oracle call of the current run was the relevance call.
NoOracleAfterGate == p_oracle[Len(p_oracle)].node = "check_relevance"

\* C14: every run rejected by the relevance gate ends with a final answer
\* for that turn, an error-style answer carrying the rejection message, and
\* no oracle call is made after the relevance call.  The rejection message
\* of a run is the error_message of its resulting state.
C14_RejectedRunHasAnswer ==
    (GateRejected /\ p_pc = "done") =>
        /\ NoOracleAfterGate
        /\ \/ RunState.final_response # Unset
           \/ Truthy(Get(RunState, "error_message", NoneVal))

\* extract_and_validate has returned in the current run and the conditional
\* edge after it has been taken.
NormalizationDone ==
    /\ p_thread # NoThread
    /\ Called("extract_and_validate")
    /\ p_pc # "extracted"
    /\ ~(p_pc = "failed" /\ p_calls[Len(p_calls)] = "extract_and_validate")

\* The positions of a node's calls in the current run.
CallsOf(node) == {i \in 1..Len(p_calls) : p_calls[i] = node}

NormalizationParsed ==
    \E i \in 1..Len(p_oracle) :
        /\ p_oracle[i].node = "extract_and_validate"
        /\ p_oracle[i].out.kind = "parsed"

ImageOnly ==
    /\ p_thread # NoThread
    /\ RunState.input_image # Unset
    /\ RunState.input_image # Some(NoneVal)
    /\ ~Truthy(Get(RunState, "input_text", NoneVal))

\* C19: for image-only input extract_and_validate outputs needs_rag = true
\* whatever the oracle returns.
C19_ImageOnlyNeedsLookup ==
    (ImageOnly /\ NormalizationParsed) => RunState.needs_rag = Some(TRUE)

\* Every question of the messages is directly followed by an answer.
CompleteTurns(messages) ==
    \A i \in 1..Len(messages) :
        IF messages[i].role = "human"
        THEN i < Len(messages) /\ messages[i + 1].role = "ai"
        ELSE i > 1 /\ messages[i - 1].role = "human"

\* C21: after any sequence of runs on a thread (answered, rejected by the
\* relevance gate, failed by an oracle error) the thread's message history
\* consists of complete turns only: every question appended by
\* rephrase_query is directly followed by the answer of the same run, so a
\* run appends its question and its answer or nothing.
C21_CompleteTurnsOnly ==
    p_pc \in {"idle", "done", "failed"} =>
        \A t \in Threads : CompleteTurns(p_state[t].messages)

\* The stages in their order, with and without the lookup.
StageChains ==
    { <<"rephrase_query", "check_relevance", "extract_and_validate",
        "retrieve_from_rag", "generate_response">>,
      <<"rephrase_query", "check_relevance", "extract_and_validate",
        "generate_response">> }

IsPrefix(s, t) == Len(s) <= Len(t) /\ SubSeq(t, 1, Len(s)) = s

\* C22: within one run the stages execute one after another in the order
\* rephrase_query, check_relevance, extract_and_validate, retrieve_from_rag
\* (only when needed), generate_response; each at most once, and the stage
\* about to start is the one that follows the stages that have returned.
C22_StagesInOrder ==
    p_thread # NoThread =>
        /\ \E chain \in StageChains : IsPrefix(p_calls, chain)
        /\ CallsOf("retrieve_from_rag") # {} => Get(RunState, "needs_rag", TRUE)
        /\ p_pc \notin {"idle", "done", "failed", "extracted"} =>
               \E chain \in StageChains : IsPrefix(Append(p_calls, p_pc), chain)

\* C22 witness: a run that went through all five stages, the lookup being
\* needed, and ended.
C22_Witness ==
    /\ p_thread # NoThread
    /\ p_pc = "done"
    /\ RunState.needs_rag = Some(TRUE)
    /\ p_calls = <<"rephrase_query", "check_relevance", "extract_and_validate",
                   "retrieve_from_rag", "generate_response">>

\* C29: for every oracle response that conforms to the ExtractionResponse
\* schema extract_and_validate completes without raising and returns
\* needs_rag as the oracle decided, search_query and is_valid as given, and
\* error_message null whenever is_valid is true.
C29_NormalizationCompletes ==
    \A i \in 1..Len(p_oracle) :
        (p_oracle[i].node = "extract_and_validate" /\ p_oracle[i].out.kind = "parsed")
        => /\ p_pc # "failed"
           /\ RunState.needs_rag # Unset
           /\ RunState.search_query = Some(p_oracle[i].out.response.search_query)
           /\ RunState.is_valid = Some(p_oracle[i].out.response.is_valid)
           /\ p_oracle[i].out.response.is_valid =>
                  RunState.error_message = Some(NoneVal)

(***************************************************************************)
(* Claims about the request entry points                                   *)
(***************************************************************************)
Reqs == 1..Len(a_reqs)

Responded(i) == a_reqs[i].response # NoResponse

ThreadHistory(i) == a_memory[<<AppOf(a_reqs[i].ep), a_reqs[i].thread_id>>]

\* C4: when a run exceeds the overall timeout, every entry point
\* (query_chemistry, query_with_upload, invoke_agent) hands the caller a
\* normal failure value; a timeout never reaches the caller as an exception.
C4_TimeoutIsAValue ==
    \A i \in Reqs :
        a_reqs[i].response.cause = "timeout" => a_reqs[i].response.kind = "value"

\* C5: after a request on thread T has timed out and its timeout response has
\* been returned, the stored history of T stays, until the next request on T,
\* what it was before the timed-out request started.  (Stated for a thread
\* that carries no other request, so only the abandoned run can touch it.)
C5_TimedOutRunLeavesHistory ==
    \A i \in Reqs :
        ( /\ a_reqs[i].response.cause = "timeout"
          /\ \A j \in Reqs \ {i} :
                <<AppOf(a_reqs[j].ep), a_reqs[j].thread_id>> #
                <<AppOf(a_reqs[i].ep), a_reqs[i].thread_id>> )
        => ThreadHistory(i) = a_reqs[i].before

\* A request with neither text nor image at one of the two endpoints.
EmptyRequest(i) == a_reqs[i].ep \in Endpoints /\ a_reqs[i].no_input

RejectedAtOnce(r) ==
    /\ r.response = Exception("HTTPException 400", "empty_input")
    /\ r.job = "none"
    /\ r.thread_id = NoThreadId
    /\ ~r.handed.sent

\* The step that receives an empty request touches nothing else.
EmptyRequestArrives ==
    ( /\ Len(a_reqs') = Len(a_reqs) + 1
      /\ a_reqs'[Len(a_reqs')].ep \in Endpoints
      /\ a_reqs'[Len(a_reqs')].no_input )
    => /\ a_ids' = a_ids
       /\ a_memory' = a_memory
       /\ a_invocations' = a_invocations
       /\ RejectedAtOnce(a_reqs'[Len(a_reqs')])

\* C6: a request with neither text nor image is rejected immediately by both
\* query_chemistry and query_with_upload: the agent is never invoked for it,
\* no thread id is generated and no thread state is created or changed.
C6_EmptyRequestRejected ==
    /\ [](\A i \in Reqs : EmptyRequest(i) => RejectedAtOnce(a_reqs[i]))
    /\ [][EmptyRequestArrives]_vars

\* Both endpoints have received, and rejected, an empty request.
C6_Witness ==
    /\ \E i \in Reqs : a_reqs[i].ep = "query_chemistry" /\ a_reqs[i].no_input
    /\ \E i \in Reqs : a_reqs[i].ep = "query_with_upload" /\ a_reqs[i].no_input
    /\ a_ids = 0
    /\ a_invocations = 0

\* C7: of all failure kinds only empty input and storage unavailability reach
\* the caller of the service endpoints as an exception; domain rejection,
\* validation failure, oracle failure and timeout come back as ordinary
\* values.
C7_OnlyEmptyInputAndStorageRaise ==
    \A i \in Reqs :
        (a_reqs[i].ep \in Endpoints /\ a_reqs[i].response.kind = "exception")
        => a_reqs[i].response.cause \in {"empty_input", "storage_unavailable"}

\* C26: for every request accepted by query_chemistry or query_with_upload
\* that carries an image (with or without text), the message handed to the
\* agent contains that image.
C26_ImageReachesAgent ==
    \A i \in 1..Len(a_reqs) :
        ( /\ a_reqs[i].ep \in Endpoints
          /\ a_reqs[i].handed.sent
          /\ a_reqs[i].image_given )
        => a_reqs[i].handed.image # NoneVal

\* C27: a timed-out request releases its worker: a request of main.py never
\* waits for a worker while every worker of the pool is held by a run whose
\* request has already timed out.
C27_TimedOutRunFreesWorker ==
    \A i \in 1..Len(a_reqs) :
        (a_reqs[i].ep \in Endpoints /\ a_reqs[i].job = "queued")
        => \/ running_jobs("main") < PoolSizeMain
           \/ \E j \in 1..Len(a_reqs) :
                /\ a_reqs[j].ep \in Endpoints
                /\ a_reqs[j].job = "running"
                /\ a_reqs[j].response = NoResponse

(***************************************************************************)
(* Claims about reading the recent history                                 *)
(***************************************************************************)
\* The last min(N, n) of the turns stored when the reader ran.
LastTurns(prior, n) ==
    IF Len(prior) <= n THEN prior
    ELSE SubSeq(prior, Len(prior) - n + 1, Len(prior))

\* The question and the answer of each turn, in the order they were stored.
RECURSIVE Flatten(_)
Flatten(turns) ==
    IF turns = <<>> THEN <<>>
    ELSE <<[role |-> "human", id |-> Head(turns).id],
           [role |-> "ai", id |-> Head(turns).id]>> \o Flatten(Tail(turns))

\* What the last reader got, as the (role, turn) pairs it holds.
ReadWindow ==
    IF h_read.reader = "rephrase_query"
    THEN (IF h_read.pair.prev_question.id = 0 THEN <<>>
          ELSE <<[role |-> "human", id |-> h_read.pair.prev_question.id]>>)
         \o (IF h_read.pair.prev_answer_short.id = 0 THEN <<>>
             ELSE <<[role |-> "ai", id |-> h_read.pair.prev_answer_short.id]>>)
    ELSE [i \in 1..Len(h_read.context) |->
            [role |-> IF h_read.context[i].speaker = "User" THEN "human" ELSE "ai",
             id |-> h_read.context[i].content.id]]

\* C11: after N turns have been appended to a thread, a reader with
\* requested size n gets exactly the last min(N, n) turns, each complete
\* (question and answer), in the order they were appended; for the context
\* of generate_response (n = max_turns) and the prior turn of rephrase_query
\* (n = 1).
C11_RecentTurns ==
    h_read.reader # "none" =>
        LET last == LastTurns(h_read.prior, h_read.n)
        IN  /\ \A i \in 1..Len(last) : last[i].complete
            /\ ReadWindow = Flatten(last)

(***************************************************************************)
(* Claims about the oracle retry loop                                      *)
(***************************************************************************)
\* The errors that are of the overload / rate-limit class: HTTP 429 and 503,
\* "model is overloaded", "rate limit reached".
OverloadClass(text) ==
    text \in { <<"429", " ", "RESOURCE_EXHAUSTED">>,
               <<"503", " ", "UNAVAILABLE">>,
               <<"The", " ", "model", " ", "is", " ", "overload", "ed">>,
               <<"Rate", " ", "Limit", " ", "reached">> }

Attempts == 1..Len(r_outcomes)

\* C16: when an attempt fails with an error that is not of the overload
\* class, no further attempt and no further delay is made: the error is
\* raised after that attempt, on whichever attempt it occurs.
C16_OtherErrorsNotRetried ==
    \A i \in Attempts :
        (r_outcomes[i].kind = "error" /\ ~OverloadClass(r_outcomes[i].text))
        => /\ i = Len(r_outcomes)
           /\ r_status = "raised"
           /\ r_result = [kind |-> "error", text |-> r_outcomes[i].text]
           /\ Len(r_delays) = i - 1

\* C17: for every sequence of oracle outcomes at most max_retries attempts
\* are made; a success on attempt k returns that result with no further
\* attempt; when every attempt fails with an overload error the last error is
\* raised after exactly max_retries attempts and max_retries - 1 delays, and
\* not before.
C17_BoundedRetries ==
    /\ Len(r_outcomes) <= r_max
    /\ r_status # "calling" => r_outcomes # <<>>
    /\ \A i \in Attempts :
        r_outcomes[i].kind = "ok" =>
            /\ i = Len(r_outcomes)
            /\ r_status = "returned"
            /\ r_result = [kind |-> "value", parsed |-> r_outcomes[i].parsed]
    /\ (\A i \in Attempts :
            r_outcomes[i].kind = "error" /\ OverloadClass(r_outcomes[i].text))
       => IF Len(r_outcomes) < r_max
          THEN r_status = "calling" /\ Len(r_delays) = Len(r_outcomes)
          ELSE /\ r_status = "raised"
               /\ r_result = [kind |-> "error", text |-> r_outcomes[r_max].text]
               /\ Len(r_delays) = r_max - 1

\* C17 witness: three attempts, each failing with an overload error; the last
\* error was raised after two delays.
C17_Witness ==
    /\ r_max = DEFAULT_MAX_RETRIES
    /\ Len(r_outcomes) = r_max
    /\ \A i \in Attempts :
        r_outcomes[i].kind = "error" /\ OverloadClass(r_outcomes[i].text)
    /\ r_status = "raised"
    /\ Len(r_delays) = r_max - 1

\* C23: the wait before each successive retry grows: the delay before retry
\* i+1 is strictly larger than the delay before retry i.
C23_DelaysGrow ==
    \A i \in 1..(Len(r_delays) - 1) : r_delays[i + 1] > r_delays[i]

SpecifiedLookup(e) ==
    LET dense == prefetch(f_dense, f_raw[e].dense)
        sparse == prefetch(f_sparse, f_raw[e].sparse)
        fused == query_points(dense, sparse, Len(dense) + Len(sparse))
        kept == SelectSeq(fused, LAMBDA point : frac_geq(point.score, f_threshold))
    IN  SubSeq(kept, 1, IF Len(kept) > f_limit THEN f_limit ELSE Len(kept))

\* C25: for every fused ranking, limit and threshold hybrid_search (top
\* `limit` first, threshold afterwards) returns exactly what the specified
\* order of operations returns (threshold first, then top `limit`): at most
\* `limit` records, every score at least the threshold, in descending score
\* order.
C25_LimitThenThreshold ==
    f_pc = "done" =>
        \A e \in 1..2 :
            /\ f_results[e] = SpecifiedLookup(e)
            /\ Len(f_results[e]) <= f_limit
            /\ \A i \in 1..Len(f_results[e]) :
                   frac_geq(f_results[e][i].score, f_threshold)
            /\ \A i, j \in 1..Len(f_results[e]) :
                   i < j => frac_geq(f_results[e][i].score, f_results[e][j].score)

\* C25 witness: the fused ranking holds more candidates than the limit, and
\* the threshold left fewer than the limit, but at least one.
C25_Witness ==
    /\ f_pc = "done"
    /\ Cardinality({f_dense[i] : i \in 1..Len(f_dense)}
                   \cup {f_sparse[i] : i \in 1..Len(f_sparse)}) > f_limit
    /\ Len(f_results[1]) < f_limit
    /\ Len(f_results[1]) >= 1

(***************************************************************************)
(* Claims about the lazily built agent                                     *)
(***************************************************************************)
\* C28: under any interleaving of concurrent first calls to get_agent /
\* build_agent / get_memory at most one agent and at most one checkpointer
\* are ever created, and every caller receives an agent bound to that one
\* checkpointer.
C28_OneAgentOneCheckpointer ==
    /\ Len(g_agents) <= 1
    /\ g_memories <= 1
    /\ \A c \in DOMAIN g_call :
        g_call[c].pc = "done" =>
            /\ g_call[c].ret = g_agent
            /\ g_agents[g_call[c].ret] = g_memory

(***************************************************************************)
(* Claims about parse_structured_response                                  *)
(***************************************************************************)
\* C30: parse_structured_response never raises: for every content (a JSON
\* object, valid JSON that is not an object, or text that is not JSON) it
\* returns a (text, image_url, audio_url) triple, with both media fields
\* null whenever the content is not a JSON object.
C30_ParseNeverRaises ==
    x_result.kind # "none" =>
        /\ x_result.kind = "returned"
        /\ x_content.kind # "object" =>
               x_result.image_url = NoneVal /\ x_result.audio_url = NoneVal
====
